---- MODULE Spec2Model ----
(***************************************************************************)
(* Controme Smart-Heat-OS integration: the refresh coordinator             *)
(* (coordinator.py), the entry setup (__init__.py) and the write path with *)
(* its 60 s cooldown (number.py, switch.py, select.py).                    *)
(*                                                                         *)
(* ContromeDataUpdateCoordinator only overrides _async_update_data; the    *)
(* storing of the result, last_update_success, the listeners, the polling  *)
(* timer and the debounced async_request_refresh are inherited from Home   *)
(* Assistant's DataUpdateCoordinator.  The actions below give the          *)
(* inherited part together with the repository's code that runs inside it. *)
(* Time is counted in seconds.                                             *)
(***************************************************************************)
EXTENDS Integers, Sequences, FiniteSets, TLC

\* ------------------------------------------------------------------ bounds
Quantum == 30
MaxTime == 90

\* --------------------------------------------------------- program constants
COOLDOWN_SECONDS == 60
BRIGHTNESS_MAX == 30

NoTime == 0 - 1
VNone == 0 - 1

\* ------------------------------------------------------------ device ids
\* A device_id is a string; it is kept as its sequence of characters so that
\* split('*') and int() are computed and not assumed.
Digits == <<"0", "1", "2", "3", "4", "5", "6", "7", "8", "9">>

IsDigit(c) == \E i \in 1..10 : Digits[i] = c

DigitVal(c) == (CHOOSE i \in 1..10 : Digits[i] = c) - 1

RECURSIVE Split(_, _)
\* str.split(sep): the tokens between the separators, at least one token
Split(s, sep) ==
    IF \A i \in 1..Len(s) : s[i] # sep
    THEN <<s>>
    ELSE LET k == CHOOSE i \in 1..Len(s) :
                     s[i] = sep /\ \A j \in 1..(i - 1) : s[j] # sep
         IN  <<SubSeq(s, 1, k - 1)>> \o Split(SubSeq(s, k + 1, Len(s)), sep)

\* int(token) succeeds on a non-empty run of decimal digits
IsIntToken(tok) == Len(tok) > 0 /\ \A i \in 1..Len(tok) : IsDigit(tok[i])

RECURSIVE ParseInt(_)
ParseInt(tok) ==
    IF Len(tok) = 0 THEN 0
    ELSE 10 * ParseInt(SubSeq(tok, 1, Len(tok) - 1)) + DigitVal(tok[Len(tok)])

\* int(self._device_id.split('*')[1]) raises IndexError or ValueError
DeviceNumFails(device_id) ==
    LET toks == Split(device_id, "*")
    IN  Len(toks) < 2 \/ ~IsIntToken(toks[2])

\* the first digit of the token taken for the number
device_num_first_digit(device_id) == DigitVal(Split(device_id, "*")[2][1])

device_num(device_id) == ParseInt(Split(device_id, "*")[2])

Dev1 == <<"R", "F", "*", "1">>
Dev2 == <<"R", "F", "*", "1", "2">>
DevNoStar == <<"R", "F", "1">>
DevNotInt == <<"R", "F", "*", "x">>

\* ------------------------------------------------------------ parameters
NumberKeys == {"sensor_offset", "display_brightness", "send_interval",
               "deviation", "force_send_count"}
SwitchKeys == {"locked", "is_main_sensor", "temp_mode_temporary",
               "battery_saving_mode"}
SelectKeys == {"device_type", "room_assignment"}

\* a key no subclass passes: the base classes take the key as an argument
UnmappedKey == "unmapped_key"

NoParam == "<None>"

\* param_map.get(self._key) of the three base classes
number_param_name(key) ==
    CASE key = "sensor_offset" -> "sensorOffset"
      [] key = "display_brightness" -> "dispBright"
      [] key = "send_interval" -> "sendInterval"
      [] key = "deviation" -> "deviation"
      [] key = "force_send_count" -> "forceSendCount"
      [] OTHER -> NoParam

switch_param_name(key) ==
    CASE key = "locked" -> "locked"
      [] key = "is_main_sensor" -> "isMainSensor"
      [] key = "temp_mode_temporary" -> "tempModeTemporary"
      [] key = "battery_saving_mode" -> "batterySavingMode"
      [] OTHER -> NoParam

select_param_name(key) ==
    CASE key = "device_type" -> "deviceType"
      [] key = "room_assignment" -> "roomID"
      [] OTHER -> NoParam

_get_parameter_name(platform, key) ==
    CASE platform = "number" -> number_param_name(key)
      [] platform = "switch" -> switch_param_name(key)
      [] OTHER -> select_param_name(key)

\* declared _attr_native_min_value / _attr_native_max_value, in tenths
native_min_value(key) ==
    CASE key = "sensor_offset" -> 0 - 50
      [] key = "display_brightness" -> 0
      [] key = "send_interval" -> 600
      [] key = "deviation" -> 0
      [] key = "force_send_count" -> 0
      [] OTHER -> 0

native_max_value(key) ==
    CASE key = "sensor_offset" -> 50
      [] key = "display_brightness" -> 300
      [] key = "send_interval" -> 36000
      [] key = "deviation" -> 5
      [] key = "force_send_count" -> 100
      [] OTHER -> 0

\* --------------------------------------------------------- wire values
\* A wire value is a string, kept as its sequence of characters (a select
\* option is one opaque chunk: _option_to_value hands it on unchanged).
Checked == <<"c", "h", "e", "c", "k", "e", "d">>
EmptyText == <<>>

\* a requested number: f says it is a Python float, t is its value in tenths
NumberValue(f, t) == [f |-> f, t |-> t]

\* int(value): truncation towards zero, result in units
IntOf(t) == IF t >= 0 THEN t \div 10 ELSE 0 - ((0 - t) \div 10)

RECURSIVE StrNat(_)
\* str(n) for n >= 0
StrNat(n) == IF n < 10 THEN <<Digits[n + 1]>>
             ELSE StrNat(n \div 10) \o <<Digits[(n % 10) + 1]>>

\* str(n) for an int n
StrInt(n) == IF n < 0 THEN <<"-">> \o StrNat(0 - n) ELSE StrNat(n)

\* the number a decimal integer text denotes, in tenths
TextTenths(txt) ==
    IF Len(txt) > 0 /\ txt[1] = "-"
    THEN 0 - 10 * ParseInt(Tail(txt))
    ELSE 10 * ParseInt(txt)

\* number.py 89-94: only display_brightness above 30 is replaced, by the int 30
ClampValue(key, value) ==
    IF key = "display_brightness" /\ value.t > 10 * BRIGHTNESS_MAX
    THEN NumberValue(FALSE, 10 * BRIGHTNESS_MAX)
    ELSE value

\* number.py 125: str(int(value)) if isinstance(value, float) else str(value)
NumberWire(value) == IF value.f THEN StrInt(IntOf(value.t)) ELSE StrInt(value.t \div 10)

\* str(value) sent for a switch
SwitchWireText(value) ==
    IF value THEN <<"T", "r", "u", "e">> ELSE <<"F", "a", "l", "s", "e">>

\* switch.py 131: "checked" if value else ""
SwitchWire(value) == IF value THEN Checked ELSE EmptyText

\* select.py 151-154
_option_to_value(option) == option

\* the requests a caller may make of each platform
NumberRequests ==
    {NumberValue(TRUE, t) : t \in {0 - 60, 5, 300, 310, 6000, 40000}}
        \cup {NumberValue(FALSE, 50), NumberValue(FALSE, 310)}
SelectRequests == {<<"undef">>, <<"hkt">>}

Requests(platform) ==
    CASE platform = "number" -> {[n |-> v, b |-> FALSE, s |-> <<>>] : v \in NumberRequests}
      [] platform = "switch" -> {[n |-> NumberValue(FALSE, 0), b |-> v, s |-> <<>>] : v \in BOOLEAN}
      [] OTHER -> {[n |-> NumberValue(FALSE, 0), b |-> FALSE, s |-> v] : v \in SelectRequests}

\* the value handed to set_thermostat_parameter
WireValue(platform, key, req) ==
    CASE platform = "number" -> NumberWire(ClampValue(key, req.n))
      [] platform = "switch" -> SwitchWire(req.b)
      [] OTHER -> _option_to_value(req.s)

\* ------------------------------------------------------------ device data
\* A Thermostat record as the scraper returns it; variant tells two
\* configurations of the same device apart.  A valve position of VNone is None.
Thermostat(id, nm, valves, variant) ==
    [device_id |-> id, name |-> nm, valve_positions |-> valves,
     sensor_offset |-> IF variant = 1 THEN 0 ELSE 5,
     display_brightness |-> IF variant = 1 THEN 15 ELSE 30,
     send_interval |-> IF variant = 1 THEN 60 ELSE 600,
     deviation |-> IF variant = 1 THEN 1 ELSE 5,
     force_send_count |-> IF variant = 1 THEN 0 ELSE 3,
     locked |-> variant = 2, is_main_sensor |-> variant = 1,
     temp_mode_temporary |-> variant = 2, battery_saving_mode |-> variant = 2,
     device_type |-> IF variant = 1 THEN <<"hkt">> ELSE <<"undef">>,
     room_name |-> nm]

\* lists get_thermostats can return
NoThermostats == <<>>

FourThermostats ==
    <<Thermostat(Dev1, "A", <<0, 0, 100>>, 1), Thermostat(Dev2, "B", <<100>>, 1),
      Thermostat(DevNoStar, "C", <<>>, 1), Thermostat(DevNotInt, "D", <<50>>, 1)>>

TwoThermostats ==
    <<Thermostat(Dev1, "A", <<10, 90>>, 2), Thermostat(Dev2, "B", <<100>>, 1)>>

NoneValveThermostats == <<Thermostat(Dev1, "A", <<VNone>>, 1)>>

\* what get_sensors can return: "raise", "none" or one of these lists
SensorLists == { <<>>, <<[sensor_id |-> "s1", value |-> 31]>> }

\* coordinator.py 64-70: Gateway(gateway_id, name, ip_address, firmware_version,
\* rooms); the average of 60-62 is not among the arguments, so the
\* system_average_valve_position that sensor.py 148 reads is what Gateway has
\* without one
Gateway(host) ==
    [gateway_id |-> "main", name |-> "Controme Gateway", ip_address |-> host,
     firmware_version |-> "<None>", rooms |-> <<>>,
     system_average_valve_position |-> VNone]

NoGateway ==
    [gateway_id |-> "", name |-> "", ip_address |-> "", firmware_version |-> "<None>",
     rooms |-> <<>>, system_average_valve_position |-> VNone]

\* coordinator.data: None until the first successful refresh, then a dict
NoData == [present |-> FALSE, thermostats |-> <<>>, gateway |-> NoGateway, sensors |-> <<>>]

RECURSIVE Concat(_)
Concat(ss) == IF Len(ss) = 0 THEN <<>> ELSE Head(ss) \o Concat(Tail(ss))

RECURSIVE SumSeq(_)
SumSeq(s) == IF Len(s) = 0 THEN 0 ELSE Head(s) + SumSeq(Tail(s))

\* coordinator.py 56-58
all_valve_positions(thermostats) ==
    Concat([i \in 1..Len(thermostats) |-> thermostats[i].valve_positions])

\* coordinator.py 62: sum() raises TypeError on a None entry
AverageRaises(thermostats) ==
    \E i \in 1..Len(all_valve_positions(thermostats)) :
        all_valve_positions(thermostats)[i] = VNone

\* coordinator.py 60-62; only logged (72-77), not stored in the Gateway
avg_valve_position(thermostats) ==
    LET all == all_valve_positions(thermostats)
    IN  IF Len(all) = 0 THEN VNone ELSE SumSeq(all) \div Len(all)

\* the sensors of the cycle left out of the dict
BuildResultWithoutSensors(thermostats, sensors) ==
    [present |-> TRUE, thermostats |-> thermostats, gateway |-> Gateway("host"),
     sensors |-> <<>>]

\* coordinator.py 79-83: the dict a successful build returns;
\* sensors is "none" or a list, and `sensors or []` makes None the empty list
BuildResult(thermostats, sensors) ==
    [present |-> TRUE, thermostats |-> thermostats, gateway |-> Gateway("host"),
     sensors |-> IF sensors.none THEN <<>> ELSE sensors.list]

\* ------------------------------------------------------------------ state
VARIABLES
    scope,                \* what the run follows: "coord", "keys", "pair", "live" or "demand"
    now,                  \* datetime.now(), in seconds
    setup,                \* where async_setup_entry is
    hass_data,            \* hass.data[DOMAIN][entry.entry_id] holds the coordinator
    data,                 \* coordinator.data
    last_update_success,  \* coordinator.last_update_success
    build,                \* the _async_update_data calls in flight, by who started them
    unsub_refresh,        \* the polling timer is set
    debounce,             \* the debouncer behind async_request_refresh
    listener_view,        \* what the listeners were last told
    ents,                 \* the entities followed, by slot
    wpc,                  \* where each entity's write is
    pending,              \* the set_thermostat_parameter call each write has in flight
    last_change_time,     \* each entity's _last_change_time, NoTime for None
    written,              \* the state each entity last wrote (async_write_ha_state)
    last_log,             \* the last record each entity's write logged
    update_failed,        \* what made the last _async_update_data raise UpdateFailed, if it did
    refresh_requested,    \* each entity's async_request_refresh calls since its last stamp
    demand,               \* what the heating demand sensors last reported
    fired                 \* listener calls of the refresh that just completed, and each
                          \* entity's own async_write_ha_state calls of its last write

vars == <<scope, now, setup, hass_data, data, last_update_success, build,
          unsub_refresh, debounce, listener_view, ents, wpc, pending,
          last_change_time, written, last_log, update_failed, refresh_requested,
          demand, fired>>

Slots == {"a", "b"}
Starters == {"sched", "req"}

NoCall == [made |-> FALSE, device_num |-> 0, name |-> NoParam, value |-> <<>>]

NoBuild == [pc |-> "none", thermostats |-> <<>>]

\* the heating demand sensors have not been read
NoReading == [read |-> FALSE]

\* a step that completes no refresh calls no listener
NoListenerCall(f) == [f EXCEPT !["refresh"] = 0]

Absent == [present |-> FALSE, platform |-> "", key |-> "", device_id |-> <<>>]

Entity(platform, key, device_id) ==
    [present |-> TRUE, platform |-> platform, key |-> key, device_id |-> device_id]

\* the entity classes of the three platforms (number.py 35-39, switch.py 34-37,
\* select.py 34-35), and each base class with a key outside its table
ClassKeys ==
    {<<"number", k>> : k \in NumberKeys \cup {UnmappedKey}}
        \cup {<<"switch", k>> : k \in SwitchKeys \cup {UnmappedKey}}
        \cup {<<"select", k>> : k \in SelectKeys \cup {UnmappedKey}}

DeviceIds(thermostats) == {thermostats[i].device_id : i \in 1..Len(thermostats)}

\* the entities one thermostat list gives rise to
EntitiesOf(thermostats) ==
    {Entity(pk[1], pk[2], d) : pk \in ClassKeys, d \in DeviceIds(thermostats)}

\* ----------------------------------------------------------- availability
\* the window with its end included
InCooldownAtInclusive(lct, t) ==
    /\ lct # NoTime
    /\ t - lct <= COOLDOWN_SECONDS

\* number.py 170-174 (switch.py 182-186, select.py 164-168): inside the window,
\* for _last_change_time lct and datetime.now() t
InCooldownAt(lct, t) ==
    /\ lct # NoTime
    /\ t - lct < COOLDOWN_SECONDS

\* the coordinator's availability left out
availableInCooldownOnly(lus, lct, t) == ~InCooldownAt(lct, t)

\* number.py 162-176; super().available is coordinator.last_update_success
availableAt(lus, lct, t) ==
    IF ~lus THEN FALSE
    ELSE IF InCooldownAt(lct, t) THEN FALSE
    ELSE TRUE

\* self.thermostat: next((t for t in thermostats if t.device_id == ...), None)
HasThermostat(ent, d) ==
    \E i \in 1..Len(d.thermostats) : d.thermostats[i].device_id = ent.device_id

thermostat(ent, d) ==
    d.thermostats[CHOOSE i \in 1..Len(d.thermostats) :
        /\ d.thermostats[i].device_id = ent.device_id
        /\ \A j \in 1..(i - 1) : d.thermostats[j].device_id # ent.device_id]

\* native_value / is_on / current_option of the entity classes: the field of
\* the entity's thermostat in coordinator.data d, and the default without one
native_value(ent, d) ==
    LET has == HasThermostat(ent, d)
        t == thermostat(ent, d)
        k == ent.key
    IN  CASE ent.platform = "number" ->
               [none |-> ~has, b |-> FALSE, s |-> <<>>,
                n |-> IF ~has THEN 0
                      ELSE CASE k = "sensor_offset" -> t.sensor_offset
                             [] k = "display_brightness" -> t.display_brightness
                             [] k = "send_interval" -> t.send_interval
                             [] k = "deviation" -> t.deviation
                             [] k = "force_send_count" -> t.force_send_count
                             [] OTHER -> 0]
          [] ent.platform = "switch" ->
               [none |-> FALSE, n |-> 0, s |-> <<>>,
                b |-> IF ~has THEN FALSE
                      ELSE CASE k = "locked" -> t.locked
                             [] k = "is_main_sensor" -> t.is_main_sensor
                             [] k = "temp_mode_temporary" -> t.temp_mode_temporary
                             [] k = "battery_saving_mode" -> t.battery_saving_mode
                             [] OTHER -> FALSE]
          [] OTHER ->
               [none |-> FALSE, n |-> 0, b |-> FALSE,
                s |-> IF ~has THEN (IF k = "device_type" THEN <<"undef">>
                                    ELSE <<"Not Assigned">>)
                      ELSE IF k = "device_type" THEN t.device_type
                      ELSE <<t.room_name>>]

Unavailable == [none |-> TRUE, n |-> 0 - 1, b |-> FALSE, s |-> <<"unavailable">>]

NotWritten == [none |-> TRUE, n |-> 0 - 1, b |-> FALSE, s |-> <<>>]

\* the state Home Assistant gets from the entity: "unavailable" unless available
StateOf(ent, d, lus, lct, t) ==
    IF availableAt(lus, lct, t) THEN native_value(ent, d) ELSE Unavailable

\* an availability query and a state query now
available(e) == availableAt(last_update_success, last_change_time[e], now)

ReportedState(e) ==
    StateOf(ents[e], data, last_update_success, last_change_time[e], now)

InitIn(sc) ==
    /\ scope = sc
    /\ now = 0
    /\ setup = "start"
    /\ hass_data = FALSE
    /\ data = NoData
    /\ last_update_success = TRUE
    /\ build = [s \in Starters |-> NoBuild]
    /\ unsub_refresh = FALSE
    /\ debounce = [timer |-> FALSE, at_end |-> FALSE]
    /\ listener_view = "none"
    /\ ents = [e \in Slots |-> Absent]
    /\ wpc = [e \in Slots |-> "idle"]
    /\ pending = [e \in Slots |-> NoCall]
    /\ last_change_time = [e \in Slots |-> NoTime]
    /\ written = [e \in Slots |-> NotWritten]
    /\ last_log = [e \in Slots |-> ""]
    /\ update_failed = ""
    /\ refresh_requested = [e \in Slots |-> 0]
    /\ demand = NoReading
    /\ fired = [x \in {"refresh"} \cup Slots |-> 0]

Init == InitIn("coord")

InitKeys == InitIn("keys")

InitPair == InitIn("pair")

InitLive == InitIn("live")

\* ------------------------------------------------------------- coordinator
\* a None result taken for a list
ThermostatsFetchFailsOnRaiseOnly(r) == r.kind = "raise"

\* an empty list refused like None
ThermostatsFetchFailsOrEmpty(r) ==
    r.kind = "raise" \/ r.kind = "none" \/ (r.kind = "list" /\ Len(r.list) = 0)

\* coordinator.py 42-47: the executor job raised, or returned None
ThermostatsFetchFails(r) == r.kind = "raise" \/ r.kind = "none"

\* get_sensors wrapped in a try of its own
SensorsFetchNeverFails(r) == FALSE

\* coordinator.py 50-52 inside the try of 39-87: only a raise leaves the build
SensorsFetchFails(r) == r.kind = "raise"

\* UpdateFailed raised without the exception it comes from
ThermostatsErrorWithoutCause(r) == "Error communicating with API"

\* coordinator.py 85-87: the exception the build's UpdateFailed is raised from
ThermostatsError(r) ==
    IF r.kind = "raise" THEN "get_thermostats raised" ELSE "Failed to fetch thermostats"

SensorsError(r) ==
    IF r.kind = "raise" THEN "get_sensors raised" ELSE "TypeError in sum"

\* what the run lets get_thermostats return, besides raising and None
ThermostatLists ==
    CASE scope = "keys" -> {FourThermostats}
      [] scope = "pair" -> {FourThermostats}
      [] scope = "live" -> {FourThermostats}
      [] OTHER -> {NoThermostats, FourThermostats, TwoThermostats, NoneValveThermostats}

ThermostatResults ==
    {[kind |-> "raise", list |-> <<>>], [kind |-> "none", list |-> <<>>]}
        \cup {[kind |-> "list", list |-> l] : l \in ThermostatLists}

SensorResults ==
    {[kind |-> "raise", list |-> <<>>], [kind |-> "none", list |-> <<>>]}
        \cup {[kind |-> "list", list |-> l] :
                  l \in IF scope = "coord" THEN SensorLists ELSE {<<>>}}

\* the listeners are the entities the platforms added
HasListeners == setup = "ready"

\* the first refresh's failure swallowed
AfterFirstRefreshIgnoringFailure(ok) == "refreshed"

\* __init__.py 36-37: the first refresh is awaited with no try around it, so its
\* ConfigEntryNotReady leaves async_setup_entry
AfterFirstRefresh(ok) == IF ok THEN "refreshed" ELSE "not_ready"

\* the snapshot dropped by a failed refresh
DataClearedOnFailure(ok, result, old) == IF ok THEN result ELSE NoData

\* coordinator.py 79-87: the dict returned becomes coordinator.data; when
\* UpdateFailed is raised instead nothing is assigned and the old data stays
DataAfter(ok, result, old) == IF ok THEN result ELSE old

\* the polling timer set again after a success only
RescheduledOnSuccess(ok, listeners) == ok /\ listeners

\* coordinator.py 27-32: with an update_interval the inherited _async_refresh
\* sets the polling timer again after every refresh, failed or not, as long as
\* there are listeners
Rescheduled(ok, listeners) == listeners

\* _async_refresh begins: the polling timer and the debouncer are cancelled and
\* _async_update_data submits get_thermostats (coordinator.py 42-44)
StartRefresh(starter) ==
    /\ unsub_refresh' = FALSE
    /\ debounce' = [timer |-> FALSE, at_end |-> FALSE]
    /\ build' = [build EXCEPT ![starter] = [pc |-> "thermostats", thermostats |-> <<>>]]

\* _async_update_data returned `result` (ok) or raised UpdateFailed (coordinator.py
\* 79-87) and the inherited _async_refresh takes it from there: the result replaces
\* coordinator.data, a failure leaves it; last_update_success is set; the polling
\* timer is set again when there are listeners; the listeners are called and the
\* entities write their state (on a failure that follows a failure Home Assistant
\* releases differ: again).
FinishRefresh(starter, ok, result, cause, again) ==
    LET notify == HasListeners /\ (ok \/ last_update_success \/ again)
    IN  /\ build' = [build EXCEPT ![starter] = NoBuild]
        /\ data' = DataAfter(ok, result, data)
        /\ last_update_success' = ok
        /\ listener_view' = IF notify THEN (IF ok THEN "ok" ELSE "failed")
                            ELSE listener_view
        /\ unsub_refresh' = Rescheduled(ok, HasListeners)
        /\ debounce' = IF starter = "req" THEN [debounce EXCEPT !.timer = TRUE]
                       ELSE debounce
        /\ setup' = IF setup = "first_refresh" THEN AfterFirstRefresh(ok) ELSE setup
        /\ wpc' = IF starter = "req"
                  THEN [e \in Slots |-> IF wpc[e] = "refreshing" THEN "publish" ELSE wpc[e]]
                  ELSE wpc
        /\ written' = IF notify
                      THEN [e \in Slots |->
                              IF ents[e].present
                              THEN StateOf(ents[e], IF ok THEN result ELSE data, ok,
                                           last_change_time[e], now)
                              ELSE written[e]]
                      ELSE written
        /\ update_failed' = cause
        /\ fired' = [fired EXCEPT !["refresh"] = IF notify THEN 1 ELSE 0]
        /\ UNCHANGED <<scope, demand, refresh_requested, now, hass_data, ents, pending, last_change_time, last_log>>

\* get_thermostats came back (coordinator.py 42-52)
ThermostatsReturn(starter, r, again) ==
    /\ build[starter].pc = "thermostats"
    /\ IF ThermostatsFetchFails(r)
       THEN FinishRefresh(starter, FALSE, data, ThermostatsError(r), again)
       ELSE /\ build' = [build EXCEPT ![starter] =
                            [pc |-> "sensors", thermostats |-> r.list]]
            /\ fired' = NoListenerCall(fired)
            /\ UNCHANGED <<scope, demand, refresh_requested, now, setup, hass_data, data, last_update_success,
                           unsub_refresh, debounce, listener_view, ents, wpc, pending,
                           last_change_time, written, last_log, update_failed>>

\* get_sensors came back (coordinator.py 50-87)
SensorsReturn(starter, r, again) ==
    /\ build[starter].pc = "sensors"
    /\ IF SensorsFetchFails(r) \/ AverageRaises(build[starter].thermostats)
       THEN FinishRefresh(starter, FALSE, data,
                          SensorsError(r), again)
       ELSE FinishRefresh(starter, TRUE,
                          BuildResult(build[starter].thermostats,
                                      [none |-> r.kind = "none", list |-> r.list]),
                          "", again)

\* the polling timer (update_interval, coordinator.py 27-32) fires
TimerFire ==
    /\ HasListeners
    /\ unsub_refresh
    /\ build["sched"].pc = "none"
    /\ StartRefresh("sched")
    /\ fired' = NoListenerCall(fired)
    /\ UNCHANGED <<scope, demand, refresh_requested, now, setup, hass_data, data, last_update_success,
                   listener_view, ents, wpc, pending, last_change_time, written,
                   last_log, update_failed>>

\* the debouncer's cooldown ends: a request made meanwhile is served now
DebounceTimerFire ==
    /\ debounce.timer
    /\ IF debounce.at_end /\ build["req"].pc = "none"
       THEN StartRefresh("req")
       ELSE /\ debounce' = [timer |-> FALSE, at_end |-> FALSE]
            /\ UNCHANGED <<build, unsub_refresh>>
    /\ fired' = NoListenerCall(fired)
    /\ UNCHANGED <<scope, demand, refresh_requested, now, setup, hass_data, data, last_update_success,
                   listener_view, ents, wpc, pending, last_change_time, written,
                   last_log, update_failed>>

\* ------------------------------------------------------------------- setup
\* __init__.py 21-37: the controller is built, the coordinator made, and
\* async_config_entry_first_refresh starts the first build
SetupCreateController(ok) ==
    /\ setup = "start"
    /\ IF ok
       THEN /\ setup' = "first_refresh"
            /\ StartRefresh("sched")
       ELSE /\ setup' = "not_ready"
            /\ UNCHANGED <<build, unsub_refresh, debounce>>
    /\ fired' = NoListenerCall(fired)
    /\ UNCHANGED <<scope, demand, refresh_requested, now, hass_data, data, last_update_success, listener_view,
                   ents, wpc, pending, last_change_time, written, last_log, update_failed>>

\* __init__.py 39-44: after the first refresh returned
SetupStore ==
    /\ setup = "refreshed"
    /\ hass_data' = TRUE
    /\ setup' = "stored"
    /\ fired' = NoListenerCall(fired)
    /\ UNCHANGED <<scope, demand, refresh_requested, now, data, last_update_success, build, unsub_refresh,
                   debounce, listener_view, ents, wpc, pending, last_change_time,
                   written, last_log, update_failed>>

\* __init__.py 46-49 and the platforms' async_setup_entry, which read the
\* coordinator from hass.data: the entities are made from coordinator.data and
\* added, which writes their first state, makes them listeners and sets the
\* polling timer
SetupForward(ea, eb) ==
    /\ setup = "stored"
    /\ hass_data
    /\ ents' = [e \in Slots |-> IF e = "a" THEN ea ELSE eb]
    /\ setup' = "ready"
    /\ listener_view' = IF last_update_success THEN "ok" ELSE "failed"
    /\ unsub_refresh' = TRUE
    /\ written' = [e \in Slots |->
                     LET en == IF e = "a" THEN ea ELSE eb
                     IN  IF en.present
                         THEN StateOf(en, data, last_update_success, NoTime, now)
                         ELSE NotWritten]
    /\ fired' = NoListenerCall(fired)
    /\ UNCHANGED <<scope, demand, refresh_requested, now, hass_data, data, last_update_success, build, debounce,
                   wpc, pending, last_change_time, last_log, update_failed>>

\* a read-back requested when an entity's window ends
ReadBackScheduled == TRUE

\* number.py 141-142: under "Schedule re-enabling after 60 seconds" the handler
\* only writes the entity's state; nothing is scheduled for the end of the window
ReadBackAtWindowEnd == FALSE

\* how far the run lets the clock go: the runs that follow the coordinator
\* stop it after one step, those that follow two entities after two
Horizon ==
    CASE scope = "coord" -> Quantum
      [] scope = "live" -> Quantum
      [] scope = "pair" -> Quantum + Quantum
      [] OTHER -> MaxTime

\* the clock moves on
Tick ==
    /\ now + Quantum <= Horizon
    /\ now' = now + Quantum
    /\ refresh_requested' =
           [e \in Slots |->
               IF ReadBackAtWindowEnd /\ InCooldownAt(last_change_time[e], now)
                                      /\ ~InCooldownAt(last_change_time[e], now')
               THEN refresh_requested[e] + 1
               ELSE refresh_requested[e]]
    /\ fired' = NoListenerCall(fired)
    /\ UNCHANGED <<scope, demand, setup, hass_data, data, last_update_success, build,
                   unsub_refresh, debounce, listener_view, ents, wpc, pending,
                   last_change_time, written, last_log, update_failed>>

\* ------------------------------------------------------------------ writes
\* the early returns without the check of the parameter name
RejectionDeviceOnly(ent) ==
    IF DeviceNumFails(ent.device_id) THEN "device_error" ELSE "none"

\* number.py 103-118 (switch.py 113-128, select.py 93-108): the early returns
Rejection(ent) ==
    IF DeviceNumFails(ent.device_id) THEN "device_error"
    ELSE IF _get_parameter_name(ent.platform, ent.key) = NoParam THEN "unknown_parameter"
    ELSE "none"

\* a write inside the entity's window given up
RefusalInCooldown(ent, lct, t) ==
    IF InCooldownAt(lct, t) THEN "cooldown" ELSE Rejection(ent)

\* number.py 86-126: the handler returns early for the two reasons of Rejection
\* only; it does not read _last_change_time (lct) or the time (t)
Refusal(ent, lct, t) == Rejection(ent)

\* any result that is not an exception taken for success
WriteSucceededUnlessRaised(res) == res # "raise"

\* number.py 128 (switch.py 141, select.py 121): `if success:`
WriteSucceeded(res) == res = "true"

\* the entity's state written whatever the call returned
OwnPublicationsAlways(res) == 1

\* number.py 128-142 (switch.py 141-155, select.py 121-135): the handler's one
\* async_write_ha_state() is inside `if success:`
OwnPublications(res) == IF WriteSucceeded(res) THEN 1 ELSE 0

\* the timestamp kept in one place for all entities
StampedSlotsAll(e) == Slots

\* number.py 63 and 136: _last_change_time is an attribute of the instance, so
\* a write stamps its own entity only
StampedSlots(e) == {e}

\* the arguments of the call kept in one place for all entities
CallSlotsShared(e) == Slots

\* number.py 104-126: device_num, param_name and the value are locals of the
\* handler, so a call carries its own entity's arguments only
CallSlots(e) == {e}

\* the assignment moved behind the awaited refresh
StampAfterRefresh == FALSE

\* number.py 136-139 (switch.py 149-152, select.py 129-132): _last_change_time
\* is assigned before async_request_refresh is awaited
StampBeforeRefresh == TRUE

\* async_set_native_value / _async_set_value / async_select_option up to the
\* await of the executor job (number.py 86-126)
WriteCall(e, req) ==
    /\ setup = "ready"
    /\ ents[e].present
    /\ wpc[e] = "idle"
    /\ LET ent == ents[e]
           rej == Refusal(ent, last_change_time[e], now)
       IN  IF rej # "none"
           THEN /\ last_log' = [last_log EXCEPT ![e] = rej]
                /\ UNCHANGED <<wpc, pending>>
           ELSE /\ last_log' = [last_log EXCEPT ![e] = "setting"]
                /\ wpc' = [wpc EXCEPT ![e] = "calling"]
                /\ pending' = [x \in Slots |->
                       IF x \in CallSlots(e)
                       THEN [made |-> TRUE,
                             device_num |-> device_num(ent.device_id),
                             name |-> _get_parameter_name(ent.platform, ent.key),
                             value |-> WireValue(ent.platform, ent.key, req)]
                       ELSE pending[x]]
    /\ fired' = [NoListenerCall(fired) EXCEPT ![e] = 0]
    /\ UNCHANGED <<scope, demand, refresh_requested, now, setup, hass_data, data, last_update_success, build,
                   unsub_refresh, debounce, listener_view, ents, last_change_time,
                   written, update_failed>>

\* set_thermostat_parameter came back with res and the handler runs on to its
\* next await or its end (number.py 121-148).  async_request_refresh goes
\* through the inherited debouncer: inside its cooldown the request is noted
\* and the call returns; with a requested refresh running it returns; otherwise
\* the refresh starts and the handler waits for it.
WriteReturn(e, res) ==
    /\ wpc[e] = "calling"
    /\ pending' = [pending EXCEPT ![e] = NoCall]
    /\ IF WriteSucceeded(res)
       THEN LET lct == IF StampBeforeRefresh THEN now ELSE last_change_time[e]
            IN  /\ last_log' = [last_log EXCEPT ![e] = "updated"]
                /\ IF debounce.timer \/ build["req"].pc # "none"
                   THEN /\ debounce' = IF debounce.timer
                                       THEN [debounce EXCEPT !.at_end = TRUE]
                                       ELSE debounce
                        /\ last_change_time' =
                               [x \in Slots |-> IF x \in StampedSlots(e) THEN now
                                                ELSE last_change_time[x]]
                        /\ written' = [written EXCEPT ![e] =
                               StateOf(ents[e], data, last_update_success, now, now)]
                        /\ wpc' = [wpc EXCEPT ![e] = "idle"]
                        /\ fired' = [NoListenerCall(fired) EXCEPT ![e] = @ + OwnPublications(res)]
                        /\ UNCHANGED <<build, unsub_refresh>>
                   ELSE /\ StartRefresh("req")
                        /\ last_change_time' =
                               [x \in Slots |-> IF x \in StampedSlots(e) THEN lct
                                                ELSE last_change_time[x]]
                        /\ wpc' = [wpc EXCEPT ![e] = "refreshing"]
                        /\ fired' = NoListenerCall(fired)
                        /\ UNCHANGED written
       ELSE /\ last_log' = [last_log EXCEPT ![e] =
                               IF res = "false" THEN "failed" ELSE last_log[e]]
            /\ wpc' = [wpc EXCEPT ![e] = "idle"]
            /\ fired' = [NoListenerCall(fired) EXCEPT ![e] = @ + OwnPublications(res)]
            /\ UNCHANGED <<build, unsub_refresh, debounce, last_change_time, written>>
    /\ refresh_requested' = IF WriteSucceeded(res)
                            THEN [refresh_requested EXCEPT ![e] = 1]
                            ELSE refresh_requested
    /\ UNCHANGED <<scope, demand, now, setup, hass_data, data, last_update_success,
                   listener_view, ents, update_failed>>

\* the awaited refresh is over: self.async_write_ha_state() (number.py 142)
WritePublish(e) ==
    /\ wpc[e] = "publish"
    /\ LET lct == IF StampBeforeRefresh THEN last_change_time[e] ELSE now
       IN  /\ last_change_time' = [last_change_time EXCEPT ![e] = lct]
           /\ written' = [written EXCEPT ![e] =
                  StateOf(ents[e], data, last_update_success, lct, now)]
    /\ wpc' = [wpc EXCEPT ![e] = "idle"]
    /\ fired' = [NoListenerCall(fired) EXCEPT ![e] = @ + OwnPublications("true")]
    /\ UNCHANGED <<scope, demand, refresh_requested, now, setup, hass_data, data, last_update_success, build,
                   unsub_refresh, debounce, listener_view, ents, pending, last_log, update_failed>>

\* ----------------------------------------------------------- specification
\* the entity followed in slot a
FollowedA ==
    CASE scope = "keys" -> EntitiesOf(data.thermostats)
      [] scope = "pair" ->
           {Entity("number", "display_brightness", Dev1)} \cap EntitiesOf(data.thermostats)
      [] OTHER ->
           IF Entity("switch", "locked", Dev1) \in EntitiesOf(data.thermostats)
           THEN {Entity("switch", "locked", Dev1)}
           ELSE {Absent}

\* the entity followed in slot b
FollowedB ==
    IF scope = "pair"
    THEN {Entity("switch", "locked", Dev2)} \cap EntitiesOf(data.thermostats)
    ELSE {Absent}

\* the requests the run makes: every one where it follows the keys, one number
\* and both switch positions elsewhere
FollowedRequests(platform) ==
    IF scope = "keys" \/ platform # "number"
    THEN Requests(platform)
    ELSE {[n |-> NumberValue(TRUE, 300), b |-> FALSE, s |-> <<>>]}

WriteResults == {"true", "false", "raise"}

\* whether a failure that follows a failure calls the listeners again differs
\* between Home Assistant releases
Renotify == IF HasListeners /\ ~last_update_success THEN BOOLEAN ELSE {FALSE}

Next ==
    \/ \E ok \in BOOLEAN : SetupCreateController(ok)
    \/ SetupStore
    \/ \E ea \in FollowedA, eb \in FollowedB : SetupForward(ea, eb)
    \/ \E st \in Starters, r \in ThermostatResults, again \in Renotify :
           ThermostatsReturn(st, r, again)
    \/ \E st \in Starters, r \in SensorResults, again \in Renotify :
           SensorsReturn(st, r, again)
    \/ TimerFire
    \/ DebounceTimerFire
    \/ Tick
    \/ \E e \in Slots : \E req \in FollowedRequests(ents[e].platform) : WriteCall(e, req)
    \/ \E e \in Slots, res \in WriteResults : WriteReturn(e, res)
    \/ \E e \in Slots : WritePublish(e)

Spec == Init /\ [][Next]_vars

SpecKeys == InitKeys /\ [][Next]_vars

SpecPair == InitPair /\ [][Next]_vars

\* Every executor job comes back (the Device Proxy returns or raises) and a
\* timer that is set fires.
Fairness ==
    /\ \A st \in Starters :
           /\ WF_vars(\E r \in ThermostatResults, again \in Renotify :
                          ThermostatsReturn(st, r, again))
           /\ WF_vars(\E r \in SensorResults, again \in Renotify :
                          SensorsReturn(st, r, again))
    /\ WF_vars(TimerFire)

SpecLive == InitLive /\ [][Next]_vars /\ Fairness

\* __init__.py 74-83: async_unload_entry.  The platforms are unloaded, which
\* removes the entities and with the last listener the polling timer; when that
\* went well the coordinator is popped from hass.data, otherwise the entry
\* stays as it is.  The run unloads between writes.
Unload(unload_ok) ==
    /\ setup = "ready"
    /\ \A e \in Slots : wpc[e] = "idle"
    /\ IF unload_ok
       THEN /\ ents' = [e \in Slots |-> Absent]
            /\ unsub_refresh' = FALSE
            /\ hass_data' = FALSE
            /\ setup' = "unloaded"
       ELSE UNCHANGED <<ents, unsub_refresh, hass_data, setup>>
    /\ fired' = NoListenerCall(fired)
    /\ UNCHANGED <<scope, demand, refresh_requested, now, data, last_update_success, build,
                   debounce, listener_view, wpc, pending, last_change_time, written,
                   last_log, update_failed>>

\* the entry followed from its setup to its unloading
NextUnload ==
    \/ Next
    \/ \E unload_ok \in BOOLEAN : Unload(unload_ok)

SpecUnload == Init /\ [][NextUnload]_vars

\* ------------------------------------------------- heating demand sensors
MaxValves == 3

\* the valve positions the demand runs draw from, in percent
ValvePositions == {0, 20, 80, 100}

RECURSIVE valid_positions(_)
\* [p for p in t.valve_positions if p is not None]
valid_positions(ps) ==
    IF Len(ps) = 0 THEN <<>>
    ELSE (IF Head(ps) = VNone THEN <<>> ELSE <<Head(ps)>>) \o valid_positions(Tail(ps))

\* round(num / den, 1) for num >= 0, in tenths.  A tie goes to the even tenth:
\* with at most four valves in a room and two rooms every tie is a quarter,
\* which a float holds exactly.
Round1(num, den) ==
    LET q == (10 * num) \div den
        r == (10 * num) % den
    IN  IF 2 * r < den THEN q
        ELSE IF 2 * r > den THEN q + 1
        ELSE IF q % 2 = 0 THEN q ELSE q + 1

\* the system average with 0 for no valve at all
system_native_value_or_zero(thermostats) ==
    LET all == all_valve_positions(thermostats)
    IN  IF Len(all) = 0 THEN 0 ELSE SumSeq(all) \div Len(all)

\* the system average rounded to the nearest integer
system_native_value_rounded(thermostats) ==
    LET all == all_valve_positions(thermostats)
    IN  IF Len(all) = 0 THEN VNone
        ELSE (2 * SumSeq(all) + Len(all)) \div (2 * Len(all))

\* sensor.py 101-113: int(sum(all_positions) / len(all_positions)), None
\* without positions
system_native_value(thermostats) ==
    LET all == all_valve_positions(thermostats)
    IN  IF Len(all) = 0 THEN VNone ELSE SumSeq(all) \div Len(all)

RECURSIVE room_stats(_)
\* the rooms the loops of sensor.py 314-326, 398-410 and 425-437 take: the
\* thermostats with valve positions, each with the sum and the number of them
room_stats(thermostats) ==
    IF Len(thermostats) = 0 THEN <<>>
    ELSE LET t == Head(thermostats)
             vp == valid_positions(t.valve_positions)
         IN  (IF Len(vp) = 0 THEN <<>>
              ELSE <<[name |-> t.name, sum |-> SumSeq(vp), n |-> Len(vp)]>>)
                 \o room_stats(Tail(thermostats))

RECURSIVE sum_of_averages(_)
\* sum(room_averages) as a fraction <<numerator, denominator>>
sum_of_averages(rooms) ==
    IF Len(rooms) = 0 THEN <<0, 1>>
    ELSE LET rest == sum_of_averages(Tail(rooms))
             r == Head(rooms)
         IN  <<rest[1] * r.n + r.sum * rest[2], rest[2] * r.n>>

\* every valve weighing the same
room_based_by_valves(thermostats) ==
    LET all == all_valve_positions(thermostats)
    IN  IF Len(all) = 0 THEN VNone ELSE Round1(SumSeq(all), Len(all))

\* sensor.py 314-330: round(sum(room_averages) / len(room_averages), 1), in tenths
room_based_native_value(thermostats) ==
    LET rooms == room_stats(thermostats)
        total == sum_of_averages(rooms)
    IN  IF Len(rooms) = 0 THEN VNone
        ELSE Round1(total[1], total[2] * Len(rooms))

RECURSIVE demand_rooms(_, _)
\* the rooms of one side of a threshold, as {name, average_position}
demand_rooms(rooms, high) ==
    IF Len(rooms) = 0 THEN <<>>
    ELSE LET r == Head(rooms)
             hit == IF high THEN r.sum > 80 * r.n ELSE r.sum < 20 * r.n
         IN  (IF hit THEN <<[name |-> r.name, average_position |-> Round1(r.sum, r.n)]>>
              ELSE <<>>) \o demand_rooms(Tail(rooms), high)

RECURSIVE count_from_eighty(_)
\* the rooms at 80 or above
count_from_eighty(rooms) ==
    IF Len(rooms) = 0 THEN 0
    ELSE (IF Head(rooms).sum >= 80 * Head(rooms).n THEN 1 ELSE 0)
             + count_from_eighty(Tail(rooms))

RECURSIVE high_demand_count(_)
\* sensor.py 398-412: room_avg > 80
high_demand_count(rooms) ==
    IF Len(rooms) = 0 THEN 0
    ELSE (IF Head(rooms).sum > 80 * Head(rooms).n THEN 1 ELSE 0)
             + high_demand_count(Tail(rooms))

RECURSIVE low_demand_count(_)
\* sensor.py 471-485: room_avg < 20
low_demand_count(rooms) ==
    IF Len(rooms) = 0 THEN 0
    ELSE (IF Head(rooms).sum < 20 * Head(rooms).n THEN 1 ELSE 0)
             + low_demand_count(Tail(rooms))

\* the room average without the rounding
room_average_cut(device_id, thermostats) ==
    LET rooms == {i \in 1..Len(thermostats) : thermostats[i].device_id = device_id}
        vp == valid_positions(thermostats[CHOOSE i \in rooms : TRUE].valve_positions)
    IN  IF rooms = {} THEN VNone
        ELSE IF Len(vp) = 0 THEN VNone
        ELSE (10 * SumSeq(vp)) \div Len(vp)

\* sensor.py 231-247: the thermostat with the sensor's device_id (the first, if
\* any); None without it or without a valve position that is not None; else
\* round(sum(valid_positions) / len(valid_positions), 1), in tenths
room_average_native_value(device_id, thermostats) ==
    LET rooms == {i \in 1..Len(thermostats) : thermostats[i].device_id = device_id}
        first == CHOOSE i \in rooms : \A j \in rooms : i <= j
        vp == valid_positions(thermostats[first].valve_positions)
    IN  IF rooms = {} THEN VNone
        ELSE IF Len(vp) = 0 THEN VNone
        ELSE Round1(SumSeq(vp), Len(vp))

\* the rooms whose average sensors the demand runs read
RoomSensors == {Dev1, Dev2}

\* what the system sensors and the room average sensors report for the snapshot d
Reading(d) ==
    LET rooms == room_stats(d.thermostats)
    IN  [read |-> TRUE,
         room_average |-> [id \in RoomSensors |->
                              room_average_native_value(id, d.thermostats)],
         system |-> system_native_value(d.thermostats),
         room_based |-> room_based_native_value(d.thermostats),
         high_count |-> high_demand_count(rooms),
         high_rooms |-> demand_rooms(rooms, TRUE),
         low_count |-> low_demand_count(rooms),
         low_rooms |-> demand_rooms(rooms, FALSE)]

\* the valve lists of one room
ValveLists == UNION {[1..n -> ValvePositions] : n \in 0..MaxValves}

\* the snapshots the demand runs start from: room A alone, or rooms A and B
DemandLists ==
    {<<Thermostat(Dev1, "A", va, 1)>> : va \in ValveLists}
        \cup {<<Thermostat(Dev1, "A", va, 1), Thermostat(Dev2, "B", vb, 1)>> :
                  va \in ValveLists, vb \in ValveLists}

\* set up, with one of the snapshots stored and the sensors not yet read
InitDemand ==
    /\ scope = "demand"
    /\ now = 0
    /\ setup = "ready"
    /\ hass_data = TRUE
    /\ data \in {BuildResult(l, [none |-> TRUE, list |-> <<>>]) : l \in DemandLists}
    /\ last_update_success = TRUE
    /\ build = [s \in Starters |-> NoBuild]
    /\ unsub_refresh = TRUE
    /\ debounce = [timer |-> FALSE, at_end |-> FALSE]
    /\ listener_view = "ok"
    /\ ents = [e \in Slots |-> Absent]
    /\ wpc = [e \in Slots |-> "idle"]
    /\ pending = [e \in Slots |-> NoCall]
    /\ last_change_time = [e \in Slots |-> NoTime]
    /\ written = [e \in Slots |-> NotWritten]
    /\ last_log = [e \in Slots |-> ""]
    /\ update_failed = ""
    /\ refresh_requested = [e \in Slots |-> 0]
    /\ demand = NoReading
    /\ fired = [x \in {"refresh"} \cup Slots |-> 0]

\* Home Assistant reads native_value and extra_state_attributes of the sensors
ReadDemand ==
    /\ scope = "demand"
    /\ ~demand.read
    /\ demand' = Reading(data)
    /\ UNCHANGED <<scope, fired, now, setup, hass_data, data, last_update_success, build,
                   unsub_refresh, debounce, listener_view, ents, wpc, pending,
                   last_change_time, written, last_log, update_failed,
                   refresh_requested>>

NextDemand == ReadDemand

SpecDemand == InitDemand /\ [][NextDemand]_vars

\* ------------------------------------------------------------ properties
\* a step in which the build started by st fails: get_thermostats raised or
\* returned None, get_sensors raised, or the sum over the valve positions did
BuildFails(st) ==
    /\ build[st].pc # "none"
    /\ build'[st].pc # build[st].pc
    /\ \E again \in Renotify :
           \/ \E r \in ThermostatResults :
                  /\ r.kind \in {"raise", "none"}
                  /\ ThermostatsReturn(st, r, again)
           \/ \E r \in SensorResults :
                  /\ r.kind = "raise" \/ AverageRaises(build[st].thermostats)
                  /\ SensorsReturn(st, r, again)

\* the wire names as the specification's tables give them
WireNameTable ==
    [number |-> [sensor_offset |-> "sensorOffset", display_brightness |-> "dispBright",
                 send_interval |-> "sendInterval", deviation |-> "deviation",
                 force_send_count |-> "forceSendCount"],
     switch |-> [locked |-> "locked", is_main_sensor |-> "isMainSensor",
                 temp_mode_temporary |-> "tempModeTemporary",
                 battery_saving_mode |-> "batterySavingMode"],
     select |-> [device_type |-> "deviceType", room_assignment |-> "roomID"]]

\* C1: after a successful write at T, an availability query at t with
\* t - T < 60 finds the entity unavailable; one with t - T >= 60 (exactly 60
\* included) finds it available, with the value of the current snapshot,
\* provided the coordinator is available.
CooldownWindow ==
    \A e \in Slots :
        (ents[e].present /\ last_change_time[e] # NoTime) =>
            /\ (now - last_change_time[e] < 60) =>
                   (~available(e) /\ ReportedState(e) = Unavailable)
            /\ (now - last_change_time[e] >= 60 /\ last_update_success) =>
                   (available(e) /\ ReportedState(e) = native_value(ents[e], data))

\* C1 witness: a query exactly 60 s after a successful write, coordinator available
CooldownEndsAtSixty ==
    \E e \in Slots :
        /\ ents[e].present
        /\ last_change_time[e] # NoTime
        /\ now - last_change_time[e] = 60
        /\ last_update_success
        /\ available(e)

\* C2: a write whose proxy call returns a falsy result leaves the cooldown
\* timestamp as it was, requests no refresh and writes no state.
FailedWriteLeavesNoTrace ==
    [][\A e \in Slots :
           WriteReturn(e, "false") =>
               /\ last_change_time' = last_change_time
               /\ build' = build
               /\ debounce' = debounce
               /\ unsub_refresh' = unsub_refresh
               /\ written' = written
               /\ listener_view' = listener_view
               /\ wpc'[e] = "idle"]_vars

\* C2 witness: a write has failed and the entity was never put in cooldown
AWriteFailed ==
    \E e \in Slots :
        /\ last_log[e] = "failed"
        /\ wpc[e] = "idle"
        /\ last_change_time[e] = NoTime

StartupGate ==
    [][/\ (setup = "first_refresh" /\ \E st \in Starters : BuildFails(st)) =>
              (setup' = "not_ready" /\ ~hass_data')
       /\ setup = "not_ready" =>
              (setup' = "not_ready" /\ ~hass_data' /\ \A e \in Slots : ~ents'[e].present)
       /\ (~hass_data /\ hass_data') =>
              /\ setup = "refreshed"
              /\ data.present
              /\ last_update_success
              /\ \A e \in Slots : ~ents[e].present /\ ~ents'[e].present
       /\ (ents' # ents) => hass_data]_vars

\* C5 witness: the first refresh failed and setup ended with nothing stored
FirstRefreshFailed ==
    /\ setup = "not_ready"
    /\ ~last_update_success
    /\ update_failed # ""
    /\ ~hass_data
    /\ ~data.present

\* C6 as stated: a build never succeeds with zero thermostats.
NeverZeroThermostats == data.present => Len(data.thermostats) > 0

\* C6, amended: when get_thermostats raises or returns None the build fails and
\* no new snapshot is stored; an empty list is accepted, and the build goes on
\* and can succeed with zero thermostats.
ThermostatFetchOutcome ==
    [][\A st \in Starters :
           (build[st].pc # "none" /\ build'[st].pc # build[st].pc) =>
           \A again \in Renotify :
           /\ \A r \in ThermostatResults :
                  ThermostatsReturn(st, r, again) =>
                      IF r.kind # "list"
                      THEN /\ data' = data
                           /\ ~last_update_success'
                           /\ update_failed' # ""
                           /\ build'[st] = NoBuild
                      ELSE /\ build'[st] = [pc |-> "sensors", thermostats |-> r.list]
                           /\ data' = data
                           /\ last_update_success' = last_update_success
           /\ \A r \in SensorResults :
                  (/\ build[st].thermostats = <<>>
                   /\ r.kind # "raise"
                   /\ SensorsReturn(st, r, again)) =>
                      /\ last_update_success'
                      /\ data'.present
                      /\ data'.thermostats = <<>>]_vars

\* C6 witness: a snapshot with zero thermostats is stored
ZeroThermostatsStored ==
    /\ data.present
    /\ Len(data.thermostats) = 0
    /\ last_update_success

\* C7 as stated: the build succeeds whether get_sensors returns a list, None
\* or raises, and sensors is empty in the two failing cases.
SensorFailureNeverFatal ==
    [][\A st \in Starters :
           (build[st].pc = "sensors" /\ build'[st].pc = "none") =>
           \A again \in Renotify, r \in SensorResults :
           (~AverageRaises(build[st].thermostats) /\ SensorsReturn(st, r, again)) =>
               /\ last_update_success'
               /\ data'.present
               /\ r.kind # "list" => data'.sensors = <<>>]_vars

\* C7, amended: with the valve average computable, the build succeeds when
\* get_sensors returns a list (stored as it is) or None (stored as the empty
\* list); when get_sensors raises, the build fails and the snapshot stays.
SensorFetchOutcome ==
    [][\A st \in Starters :
           (build[st].pc = "sensors" /\ build'[st].pc = "none") =>
           \A again \in Renotify, r \in SensorResults :
           (~AverageRaises(build[st].thermostats) /\ SensorsReturn(st, r, again)) =>
               IF r.kind = "raise"
               THEN /\ data' = data
                    /\ ~last_update_success'
                    /\ update_failed' = "get_sensors raised"
               ELSE /\ last_update_success'
                    /\ data'.present
                    /\ data'.thermostats = build[st].thermostats
                    /\ data'.sensors = IF r.kind = "none" THEN <<>> ELSE r.list]_vars

\* C7 witness: a build failed because get_sensors raised
SensorFetchFailedTheBuild ==
    /\ update_failed = "get_sensors raised"
    /\ ~last_update_success

\* C8 as stated: the value sent for a numeric parameter lies in the declared
\* range of the parameter.
SentValueInRange ==
    \A e \in Slots :
        (pending[e].made /\ ents[e].platform = "number") =>
            /\ native_min_value(ents[e].key) <= TextTenths(pending[e].value)
            /\ TextTenths(pending[e].value) <= native_max_value(ents[e].key)

\* C9: a write under a name the platform's table does not map makes no proxy
\* call, sets no cooldown and requests no refresh; a call that is made carries
\* the wire name the table gives for the entity's name.
UnmappedNameRejected ==
    [][\A e \in Slots :
           /\ (/\ ents[e].key = UnmappedKey
               /\ \E req \in Requests(ents[e].platform) : WriteCall(e, req)) =>
                  /\ pending' = pending
                  /\ ~pending'[e].made
                  /\ wpc' = wpc
                  /\ last_change_time' = last_change_time
                  /\ build' = build
                  /\ debounce' = debounce
                  /\ unsub_refresh' = unsub_refresh
                  /\ written' = written
           /\ pending'[e].made =>
                  /\ ents[e].key \in DOMAIN WireNameTable[ents[e].platform]
                  /\ pending'[e].name = WireNameTable[ents[e].platform][ents[e].key]]_vars

\* C9 witness: a write under an unmapped name was rejected
AnUnmappedWriteRejected ==
    \E e \in Slots :
        /\ ents[e].key = UnmappedKey
        /\ last_log[e] = "unknown_parameter"
        /\ ~pending[e].made
        /\ last_change_time[e] = NoTime

\* C10 as stated: when the refresh a write triggered completes, the entity is
\* in cooldown.
InCooldownAtCompletion ==
    [][\A e \in Slots :
           (wpc[e] = "refreshing" /\ wpc'[e] = "publish") =>
               InCooldownAt(last_change_time'[e], now')]_vars

\* C10, amended: when the refresh a write triggered completes, the cooldown
\* timestamp of that write is already recorded; the entity is unavailable then,
\* and its written state says so, if less than 60 s have passed since the write.
StampedAtCompletion ==
    [][\A e \in Slots :
           (wpc[e] = "refreshing" /\ wpc'[e] = "publish") =>
               /\ last_change_time'[e] # NoTime
               /\ last_change_time'[e] = last_change_time[e]
               /\ (now' - last_change_time'[e] < 60) =>
                      /\ ~availableAt(last_update_success', last_change_time'[e], now')
                      /\ written'[e] = Unavailable]_vars

\* C10 witness: the refresh of a write completed 60 s or more after the write
ASlowRefreshCompleted ==
    \E e \in Slots :
        /\ wpc[e] = "publish"
        /\ last_change_time[e] # NoTime
        /\ now - last_change_time[e] >= 60

\* C11: the cooldown timestamp of an entity changes only in the step in which
\* that entity's own write succeeds; no refresh step, no passing of time, no
\* query and no write of another entity sets, clears or moves it.
TimestampFrame ==
    [][\A e \in Slots :
           (last_change_time'[e] # last_change_time[e]) =>
               /\ WriteReturn(e, "true")
               /\ last_change_time'[e] = now]_vars

\* C11 witness: two entities were written at different times and each keeps
\* its own timestamp
TwoOwnTimestamps ==
    /\ ents["a"].present
    /\ ents["b"].present
    /\ last_change_time["a"] # NoTime
    /\ last_change_time["b"] # NoTime
    /\ last_change_time["a"] # last_change_time["b"]

\* C12: a successful write makes exactly one refresh request, which the
\* debouncer has started, noted or found running; nothing else requests a
\* refresh for the entity, in particular not the end of its 60 s window, after
\* which the entity reports the value of the current snapshot.
OneRequestPerWrite ==
    [][\A e \in Slots :
           /\ WriteReturn(e, "true") =>
                  /\ refresh_requested'[e] = 1
                  /\ build'["req"].pc # "none" \/ debounce'.at_end
           /\ (refresh_requested'[e] # refresh_requested[e]) => WriteReturn(e, "true")
           /\ (/\ InCooldownAt(last_change_time[e], now)
               /\ ~InCooldownAt(last_change_time'[e], now')) =>
                  /\ build' = build
                  /\ debounce' = debounce
                  /\ unsub_refresh' = unsub_refresh
                  /\ refresh_requested' = refresh_requested
           /\ (/\ ents'[e].present
               /\ last_change_time'[e] # NoTime
               /\ now' - last_change_time'[e] >= 60
               /\ last_update_success') =>
                  StateOf(ents'[e], data', last_update_success', last_change_time'[e], now')
                      = native_value(ents'[e], data')]_vars

\* C12 witness: the window of a written entity is over, one request was made
\* for it, no build is running and the debouncer holds no request
WindowOverNothingDue ==
    \E e \in Slots :
        /\ ents[e].present
        /\ last_change_time[e] # NoTime
        /\ now - last_change_time[e] >= 60
        /\ refresh_requested[e] = 1
        /\ last_update_success
        /\ \A st \in Starters : build[st].pc = "none"
        /\ ~debounce.timer
        /\ ~debounce.at_end

\* C13: turning a switch on sends "checked" and turning it off sends the empty
\* string; a call for a switch parameter never carries another value.
SwitchWireValues ==
    [][\A e \in Slots :
           (ents[e].platform = "switch") =>
               /\ \A b \in BOOLEAN :
                      (/\ Rejection(ents[e]) = "none"
                       /\ WriteCall(e, [n |-> NumberValue(FALSE, 0), b |-> b, s |-> <<>>])) =>
                          /\ pending'[e].made
                          /\ pending'[e].value =
                                 IF b THEN <<"c", "h", "e", "c", "k", "e", "d">> ELSE <<>>
               /\ pending'[e].made =>
                      pending'[e].value \in {<<"c", "h", "e", "c", "k", "e", "d">>, <<>>}]_vars

\* C13 witness: a switch is being turned off and the call carries the empty string
ASwitchTurnedOff ==
    \E e \in Slots :
        /\ ents[e].platform = "switch"
        /\ pending[e].made
        /\ pending[e].value = <<>>

\* the valve positions of the thermostats of the stored snapshot
ValveSum(i) == SumSeq(data.thermostats[i].valve_positions)

ValveCount(i) == Len(data.thermostats[i].valve_positions)

RoomsWithValves == {i \in 1..Len(data.thermostats) : ValveCount(i) > 0}

\* rooms A = [0, 0, 100] and B = [100]
TwoRoomExample ==
    /\ Len(data.thermostats) = 2
    /\ data.thermostats[1].valve_positions = <<0, 0, 100>>
    /\ data.thermostats[2].valve_positions = <<100>>

\* C14: with all valve positions in 0..100, the System Heating Demand value is
\* undefined (None, not 0) exactly when no thermostat of the snapshot has a
\* valve position, and lies in [0, 100] otherwise.
SystemAverageRange ==
    demand.read =>
        /\ (demand.system = VNone) <=> (RoomsWithValves = {})
        /\ (RoomsWithValves # {}) => (0 <= demand.system /\ demand.system <= 100)

\* C14 witness: two thermostats without any valve, and the value read is None
SystemAverageUndefined ==
    /\ demand.read
    /\ Len(data.thermostats) = 2
    /\ RoomsWithValves = {}
    /\ demand.system = VNone

\* C15 as stated: for rooms [0, 0, 100] and [100] the room-based average is
\* 66.65 while the system average is 50.
RoomBasedExampleAsStated ==
    (demand.read /\ TwoRoomExample) =>
        /\ 10 * demand.room_based = 6665
        /\ demand.system = 50

\* C15, amended: the room-based average is the mean of the unrounded averages
\* of the rooms, one per thermostat with at least one valve whatever its number
\* of valves, rounded to one decimal; it is None without such a room.  For
\* rooms [0, 0, 100] and [100] it is 66.7 while the system average is 50.
RoomBasedAverage ==
    demand.read =>
        /\ (demand.room_based = VNone) <=> (RoomsWithValves = {})
        /\ \A i \in RoomsWithValves :
               (RoomsWithValves = {i}) =>
                   /\ 2 * (ValveCount(i) * demand.room_based - 10 * ValveSum(i))
                          <= ValveCount(i)
                   /\ 2 * (10 * ValveSum(i) - ValveCount(i) * demand.room_based)
                          <= ValveCount(i)
        /\ \A i, j \in RoomsWithValves :
               (i < j /\ RoomsWithValves = {i, j}) =>
                   LET ni == ValveCount(i)
                       nj == ValveCount(j)
                       exact == 10 * (ValveSum(i) * nj + ValveSum(j) * ni)
                   IN  /\ 2 * ni * nj * demand.room_based - exact <= ni * nj
                       /\ exact - 2 * ni * nj * demand.room_based <= ni * nj
        /\ TwoRoomExample => (demand.room_based = 667 /\ demand.system = 50)

\* C15 witness: the sensors were read for rooms [0, 0, 100] and [100]
TwoRoomExampleRead ==
    /\ demand.read
    /\ TwoRoomExample
    /\ demand.room_based = 667

\* C16: the high demand rooms are exactly the thermostats whose room average
\* is above 80 and the low demand rooms exactly those whose average is below
\* 20, a room at exactly 80 or 20 being in neither; each count equals the
\* length of the list reported for the same snapshot.
DemandRoomsStrict ==
    demand.read =>
        LET High == {i \in RoomsWithValves : ValveSum(i) > 80 * ValveCount(i)}
            Low == {i \in RoomsWithValves : ValveSum(i) < 20 * ValveCount(i)}
        IN  /\ {demand.high_rooms[k].name : k \in 1..Len(demand.high_rooms)}
                   = {data.thermostats[i].name : i \in High}
            /\ Len(demand.high_rooms) = Cardinality(High)
            /\ demand.high_count = Len(demand.high_rooms)
            /\ {demand.low_rooms[k].name : k \in 1..Len(demand.low_rooms)}
                   = {data.thermostats[i].name : i \in Low}
            /\ Len(demand.low_rooms) = Cardinality(Low)
            /\ demand.low_count = Len(demand.low_rooms)

\* C16 witness: one room at exactly 80 and one above it, and one room counted
ARoomAtEighty ==
    /\ demand.read
    /\ \E i, j \in RoomsWithValves :
           /\ ValveSum(i) = 80 * ValveCount(i)
           /\ ValveSum(j) > 80 * ValveCount(j)
    /\ demand.high_count = 1
    /\ Len(demand.high_rooms) = 1

\* C17 as stated: the Gateway of a stored snapshot carries the floor of the
\* sum of all valve positions over their number, and None when there is none.
GatewayCarriesAverage ==
    data.present =>
        data.gateway.system_average_valve_position =
            (LET all == all_valve_positions(data.thermostats)
             IN  IF Len(all) = 0 THEN VNone ELSE SumSeq(all) \div Len(all))

\* C18: a successful build replaces the snapshot by its own result: the
\* thermostats and sensors fetched in this cycle and the Gateway made in it;
\* the failure state is cleared, the build is over, and the listening entities
\* are called and write their state from the new snapshot.
SnapshotReplacedWhole ==
    [][\A st \in Starters :
           (build[st].pc = "sensors" /\ build'[st].pc = "none") =>
           \A again \in Renotify, r \in SensorResults :
               (/\ r.kind # "raise"
                /\ ~AverageRaises(build[st].thermostats)
                /\ SensorsReturn(st, r, again)) =>
                   /\ data' = [present |-> TRUE,
                               thermostats |-> build[st].thermostats,
                               gateway |-> Gateway("host"),
                               sensors |-> IF r.kind = "none" THEN <<>> ELSE r.list]
                   /\ last_update_success'
                   /\ update_failed' = ""
                   /\ build'[st] = NoBuild
                   /\ HasListeners =>
                          /\ listener_view' = "ok"
                          /\ \A e \in Slots :
                                 ents[e].present =>
                                     written'[e] = StateOf(ents[e], data', TRUE,
                                                           last_change_time[e], now)]_vars

\* C18 witness: an entity made from an earlier snapshot listens, and the stored
\* snapshot is a later one without thermostats but with sensors
ASnapshotReplaced ==
    /\ setup = "ready"
    /\ ents["a"].present
    /\ data.present
    /\ data.thermostats = <<>>
    /\ data.sensors # <<>>
    /\ last_update_success
    /\ listener_view = "ok"

\* C19: every way a build fails ends in UpdateFailed carrying its cause:
\* get_thermostats raising, its None result, get_sensors raising, and the
\* TypeError of the average; a build ends either with a result or with it.
FailureIsUpdateFailed ==
    [][\A st \in Starters :
           (build[st].pc # "none" /\ build'[st].pc # build[st].pc) =>
           \A again \in Renotify :
               /\ \A r \in ThermostatResults :
                      ThermostatsReturn(st, r, again) =>
                          /\ (r.kind = "raise") =>
                                 update_failed' = "get_thermostats raised"
                          /\ (r.kind = "none") =>
                                 update_failed' = "Failed to fetch thermostats"
               /\ \A r \in SensorResults :
                      SensorsReturn(st, r, again) =>
                          /\ (r.kind = "raise") => update_failed' = "get_sensors raised"
                          /\ (r.kind # "raise" /\ AverageRaises(build[st].thermostats)) =>
                                 update_failed' = "TypeError in sum"
               /\ (build'[st].pc = "none") =>
                      (last_update_success' <=> update_failed' = "")]_vars

\* C19 witness: a build failed on the average of the valve positions
AverageFailedTheBuild ==
    /\ update_failed = "TypeError in sum"
    /\ ~last_update_success

\* C20 as stated: a write whose proxy call fails, by a falsy result or by
\* raising, ends in the handler with the failure logged.
WriteErrorLogged ==
    [][\A e \in Slots, res \in {"false", "raise"} :
           WriteReturn(e, res) => last_log'[e] = "failed"]_vars

\* C21: two calls on different pairs are independent in every interleaving,
\* also with a refresh in flight: the step in which a call returns sets its own
\* entity's timestamp to now if the write succeeded and leaves it if not, and
\* neither the start nor the return of a call changes the other entity's
\* timestamp or the arguments of the other entity's call.
IndependentWrites ==
    [][\A e \in Slots : \A o \in Slots \ {e} :
           /\ (wpc[e] = "calling" /\ wpc'[e] # "calling") =>
                  /\ \A res \in WriteResults :
                         WriteReturn(e, res) =>
                             last_change_time'[e] =
                                 IF res = "true" THEN now ELSE last_change_time[e]
                  /\ last_change_time'[o] = last_change_time[o]
                  /\ pending'[o] = pending[o]
           /\ (wpc[e] = "idle" /\ wpc'[e] = "calling") =>
                  /\ last_change_time' = last_change_time
                  /\ pending'[o] = pending[o]]_vars

\* C21 witness: both calls are at the Device Proxy with their own arguments
\* while a refresh is in flight, and the first entity was written before
BothCallsInFlight ==
    /\ wpc["a"] = "calling"
    /\ wpc["b"] = "calling"
    /\ pending["a"].made
    /\ pending["b"].made
    /\ pending["a"] # pending["b"]
    /\ last_change_time["a"] # NoTime
    /\ last_change_time["b"] = NoTime
    /\ \E st \in Starters : build[st].pc # "none"

\* a step in which the build started by st completes
BuildCompletes(st) == build[st].pc # "none" /\ build'[st].pc = "none"

\* the write handler's own publications: one for a write that succeeded and
\* has run to its end, none for a failed or rejected write or one still running
OwnPublicationCount ==
    \A e \in Slots :
        fired[e] = IF wpc[e] = "idle" /\ last_log[e] = "updated" THEN 1 ELSE 0

\* C22 as stated: every completed refresh, successful or failed, calls the
\* listeners exactly once, and the handler publishes once per successful write
\* and never for a failed or rejected one.
NotifiedOncePerRefresh ==
    [][/\ \A st \in Starters : BuildCompletes(st) => fired'["refresh"] = 1
       /\ OwnPublicationCount']_vars

\* C22: a completed refresh calls the listeners at most once: once when the
\* entities are subscribed and it succeeded or the refresh before it had, not
\* at all before the platforms are set up; after a failure that follows a
\* failure it may or may not.  The handler publishes the entity's own state
\* exactly once per successful write, and never for a failed or rejected one.
NotifiedAtMostOncePerRefresh ==
    [][/\ \A st \in Starters :
              BuildCompletes(st) =>
                  /\ fired'["refresh"] \in {0, 1}
                  /\ (HasListeners /\ (last_update_success' \/ last_update_success))
                         => fired'["refresh"] = 1
                  /\ ~HasListeners => fired'["refresh"] = 0
       /\ OwnPublicationCount']_vars

\* C22 witness: the listeners are told of a failed refresh after an entity's
\* write succeeded and published once
NotifiedOfFailureAndWrite ==
    /\ fired["refresh"] = 1
    /\ ~last_update_success
    /\ fired["a"] = 1
    /\ last_log["a"] = "updated"
    /\ wpc["a"] = "idle"

\* the thermostats of the stored snapshot with the device id
RoomsOf(id) == {i \in 1..Len(data.thermostats) : data.thermostats[i].device_id = id}

\* v, in tenths, is the mean of the valve positions of thermostat i rounded to
\* one decimal: no tenth is nearer to the mean
IsRoundedMean(v, i) == 2 * (v * ValveCount(i) - 10 * ValveSum(i)) \in (0 - ValveCount(i))..ValveCount(i)

\* C23: the room average of a thermostat is the mean of its valve positions
\* (none of a stored snapshot is absent) rounded to one decimal, and it is
\* None exactly when the thermostat is missing from the snapshot or has no
\* valve position.
RoomAverageRounded ==
    demand.read =>
        \A id \in RoomSensors :
            /\ (demand.room_average[id] = VNone) <=>
                   (RoomsOf(id) = {} \/ \A i \in RoomsOf(id) : ValveCount(i) = 0)
            /\ (demand.room_average[id] # VNone) =>
                   \A i \in RoomsOf(id) : IsRoundedMean(demand.room_average[id], i)

\* C23 witness: room A = [0, 100, 100] reads 66.7 and room B is not in the snapshot
RoomAverageRead ==
    /\ demand.read
    /\ Len(data.thermostats) = 1
    /\ data.thermostats[1].valve_positions = <<0, 100, 100>>
    /\ demand.room_average[Dev1] = 667
    /\ demand.room_average[Dev2] = VNone

\* all valve positions of the stored snapshot
TotalValveSum == SumSeq([i \in 1..Len(data.thermostats) |-> ValveSum(i)])

TotalValveCount == SumSeq([i \in 1..Len(data.thermostats) |-> ValveCount(i)])

\* every room listed in rooms carries its average rounded to one decimal
ListedAveragesRounded(rooms) ==
    \A k \in 1..Len(rooms) :
        \E i \in RoomsWithValves :
            /\ data.thermostats[i].name = rooms[k].name
            /\ IsRoundedMean(rooms[k].average_position, i)

\* C24: the system average is the mean of all valve positions cut to an
\* integer, not rounded (a mean of 66.67 gives 66); the room averages, the
\* room-based average and the averages listed for the high and low demand
\* rooms are rounded to one decimal.
TruncatedSystemAverage ==
    demand.read =>
        /\ (TotalValveCount > 0) =>
               /\ demand.system * TotalValveCount <= TotalValveSum
               /\ TotalValveSum < (demand.system + 1) * TotalValveCount
        /\ \A id \in RoomSensors : \A i \in RoomsOf(id) :
               (ValveCount(i) > 0) => IsRoundedMean(demand.room_average[id], i)
        /\ \A i \in RoomsWithValves :
               (RoomsWithValves = {i}) => IsRoundedMean(demand.room_based, i)
        /\ \A i, j \in RoomsWithValves :
               (i < j /\ RoomsWithValves = {i, j}) =>
                   2 * (2 * ValveCount(i) * ValveCount(j) * demand.room_based
                            - 10 * (ValveSum(i) * ValveCount(j) + ValveSum(j) * ValveCount(i)))
                       \in (0 - 2 * ValveCount(i) * ValveCount(j))
                               ..(2 * ValveCount(i) * ValveCount(j))
        /\ ListedAveragesRounded(demand.high_rooms)
        /\ ListedAveragesRounded(demand.low_rooms)

\* C24 witness: valves [0, 100, 100] in one room: the mean 66.67 reads 66 as
\* the system average and 66.7 as the room average and the room-based average
CutNotRounded ==
    /\ demand.read
    /\ TotalValveCount = 3
    /\ TotalValveSum = 200
    /\ demand.system = 66
    /\ demand.room_based = 667
    /\ demand.room_average[Dev1] = 667

\* the device numbers of the well-formed device ids of the run
DeviceNumberTable ==
    (<<"R", "F", "*", "1">> :> 1) @@ (<<"R", "F", "*", "1", "2">> :> 12)

\* C25: a call to the Device Proxy carries the integer value of the second
\* '*'-separated token of the entity's device_id; an entity whose device_id has
\* no '*' or no integer after it never has a call in flight, never starts a
\* cooldown and never requests a refresh, whatever is written to it.
DeviceNumberParsed ==
    \A e \in Slots :
        ents[e].present =>
            /\ pending[e].made =>
                   /\ ents[e].device_id \in DOMAIN DeviceNumberTable
                   /\ pending[e].device_num = DeviceNumberTable[ents[e].device_id]
            /\ (ents[e].device_id \notin DOMAIN DeviceNumberTable) =>
                   /\ ~pending[e].made
                   /\ wpc[e] = "idle"
                   /\ last_change_time[e] = NoTime
                   /\ refresh_requested[e] = 0
                   /\ fired[e] = 0
                   /\ last_log[e] \in {"", "device_error"}

\* C25 witness: a write to an entity whose device_id has a '*' but no integer
\* after it was given up
ABadDeviceIdRejected ==
    \E e \in Slots :
        /\ ents[e].present
        /\ ents[e].device_id = <<"R", "F", "*", "x">>
        /\ last_log[e] = "device_error"
        /\ ~pending[e].made
        /\ last_change_time[e] = NoTime

\* C26 as stated: the text sent for a numeric parameter denotes the number
\* requested (after the clamp of the brightness), fractions included: 0.5 is
\* sent as 0.5.
WireValueExact ==
    [][\A e \in Slots :
           (ents[e].platform = "number" /\ wpc[e] = "idle" /\ wpc'[e] = "calling") =>
               \A req \in Requests("number") :
                   WriteCall(e, req) =>
                       TextTenths(pending'[e].value) = ClampValue(ents[e].key, req.n).t]_vars

\* C27: an entity is available exactly when the last completed refresh
\* succeeded and the entity is not within 60 s of its last successful write,
\* and it reports "unavailable" exactly when it is not available; after a
\* failed refresh it stays unavailable with the window over and the previous
\* snapshot kept.
AvailableIff ==
    \A e \in Slots :
        ents[e].present =>
            /\ available(e) <=>
                   /\ update_failed = ""
                   /\ ~(last_change_time[e] # NoTime /\ now - last_change_time[e] < 60)
            /\ (ReportedState(e) = Unavailable) <=> ~available(e)
            /\ (update_failed # "") => data.present /\ ~available(e)

\* C27 witness: the last refresh failed, the snapshot is kept, the entity's
\* window is over and the entity is unavailable
UnavailableAfterWindow ==
    \E e \in Slots :
        /\ ents[e].present
        /\ update_failed # ""
        /\ data.present
        /\ last_change_time[e] # NoTime
        /\ now - last_change_time[e] >= 60
        /\ ~available(e)
        /\ written[e] = Unavailable

\* C28: the cooldown does not gate writes.  A write to an entity inside its
\* window is sent to the Device Proxy like any other; when a call of an entity
\* written before returns success, the timestamp moves to now, so that the
\* entity is unavailable until 60 s from now; when it returns failure the
\* earlier timestamp stays.
CooldownDoesNotGate ==
    [][\A e \in Slots :
           /\ (/\ wpc[e] = "idle"
               /\ InCooldownAt(last_change_time[e], now)
               /\ Rejection(ents[e]) = "none"
               /\ \E req \in Requests(ents[e].platform) : WriteCall(e, req)) =>
                  /\ pending'[e].made
                  /\ wpc'[e] = "calling"
                  /\ last_change_time'[e] = last_change_time[e]
           /\ (/\ wpc[e] = "calling"
               /\ wpc'[e] # "calling"
               /\ last_change_time[e] # NoTime) =>
                  \A res \in WriteResults :
                      WriteReturn(e, res) =>
                          IF res = "true"
                          THEN /\ last_change_time'[e] = now
                               /\ \A t \in {now, now + 59} :
                                      ~availableAt(TRUE, last_change_time'[e], t)
                               /\ availableAt(TRUE, last_change_time'[e], now + 60)
                          ELSE last_change_time'[e] = last_change_time[e]]_vars

\* C28 witness: a call is at the Device Proxy for an entity that is inside the
\* window of an earlier write
ACallInsideTheWindow ==
    \E e \in Slots :
        /\ pending[e].made
        /\ last_change_time[e] # NoTime
        /\ now > last_change_time[e]
        /\ InCooldownAt(last_change_time[e], now)

\* C29: from the end of the first refresh to the unloading of the entry, and
\* whenever an entity exists, coordinator.data is a dict with thermostats,
\* gateway and sensors, never None, whatever refreshes and writes follow.
SnapshotNeverAbsent ==
    (setup \in {"refreshed", "stored", "ready"} \/ \E e \in Slots : ents[e].present) =>
        /\ data # NoData
        /\ data.present
        /\ {"thermostats", "gateway", "sensors"} \subseteq DOMAIN data
        /\ data.gateway # NoGateway

\* C29 witness: an entity exists, it was written, the last refresh failed and
\* the snapshot is there
SnapshotKeptWhileLoaded ==
    /\ setup = "ready"
    /\ \E e \in Slots : ents[e].present /\ last_log[e] = "updated"
    /\ update_failed # ""
    /\ data.present

\* C30: a failed refresh after startup is not sticky.  Every build that was
\* started completes; with the entry set up, a failure is followed by a new
\* build; and a build that succeeds stores its own result and clears the
\* failure.
FailureNotSticky ==
    /\ \A st \in Starters : (build[st].pc # "none") ~> (build[st].pc = "none")
    /\ (setup = "ready" /\ ~last_update_success)
           ~> (\E st \in Starters : build[st].pc # "none")
    /\ [][\A st \in Starters :
              (BuildCompletes(st) /\ update_failed' = "") =>
                  /\ last_update_success'
                  /\ data'.present
                  /\ data'.thermostats = build[st].thermostats]_vars

\* C30 witness: with the entry set up, a refresh failed and the next build is
\* under way while the snapshot of before is still there
RetryAfterFailure ==
    /\ setup = "ready"
    /\ ~last_update_success
    /\ update_failed # ""
    /\ data.present
    /\ build["sched"].pc # "none"

====
